---- MODULE Spec2Model ----
(***************************************************************************)
(* dupfind: the detection pipeline.                                        *)
(*                                                                         *)
(*   mapWithConcurrency    (src/hash.ts)   bounded worker pool             *)
(*   buildDuplicatesReport (src/report.ts) size buckets -> hashing ->      *)
(*                                         digest groups -> report         *)
(*   walkDirectory,                                                        *)
(*   collectSizeGroups     (src/scan.ts)   directory walk, filters, sizes  *)
(*                                                                         *)
(* JavaScript runs every synchronous stretch of code to completion, so an  *)
(* action is one such stretch: from a resumption (or a call) up to the     *)
(* next await.                                                             *)
(***************************************************************************)
EXTENDS Integers, Sequences, FiniteSets, TLC

\* ------------------------------------------------------------------ bounds
MaxItems == 3
MaxLimit == 2
MaxFiles == 4
MaxCpus == 1
\* how many hashFile calls of one run are allowed to fail
MaxHashFailures == 1
MaxNodes == 3
MaxCpuCount == 16       \* os.cpus().length is in 0..MaxCpuCount
MaxChanges == 1         \* at most MaxChanges files are rewritten during a run
MaxChunks == 3          \* a file is read in at most MaxChunks chunks

\* ------------------------------------------------------- values and inputs
\* the items of a call are the first n of these (all distinct, as the
\* candidate paths of buildDuplicatesReport are)
ItemPool == << "a", "b", "c", "d", "e", "f" >>

\* What an array slot or a mapper result can hold.  A value is a HashResult
\* { filePath, hash } (src/types.ts); a test transform's output for item x
\* (item * 2 in the tests) is the value made of x and "x2".
\* HOLE is a slot never assigned (new Array(n) creates holes), NULL is null.
HOLE == [tag |-> "hole", filePath |-> "", hash |-> ""]
NULL == [tag |-> "null", filePath |-> "", hash |-> ""]
Value(filePath, hash) == [tag |-> "value", filePath |-> filePath, hash |-> hash]
ValueOf(item) == Value(item, "x2")

\* A thrown value: an Error object with a message, or something that is no
\* Error (JavaScript can throw anything), here a string.
ErrorObj(msg) == [isError |-> TRUE, text |-> msg]
NonError(str) == [isError |-> FALSE, text |-> str]
NoError == [isError |-> FALSE, text |-> ""]

\* The ways one call of a mapper can settle: its promise resolves with a
\* value or with null, or rejects with a thrown value.
Returned(v) == [kind |-> "return", val |-> v, err |-> NoError]
Raised(e) == [kind |-> "raise", val |-> NULL, err |-> e]
PENDING == [kind |-> "pending", val |-> NULL, err |-> NoError]

GenericOutcomes(item) ==
    { Returned(ValueOf(item)), Returned(NULL),
      Raised(ErrorObj("boom")), Raised(NonError("oops")) }

\* ------------------------------------------------------------------- state
VARIABLES
    items,          \* mapWithConcurrency: the input array, indexed from 0
    limit,          \* mapWithConcurrency: the limit argument
    onProgress,     \* "none" | "ok" | "throws": the optional callback
    results,        \* the results array, indexed from 0
    errors,         \* the errors array
    index,          \* next index to claim
    completed,      \* number of finished items
    wpc,            \* per worker: "new" | "awaiting" | "settled" | "done" | "rejected"
    wcur,           \* per worker: the index it holds (its local `current`)
    wout,           \* per worker: how its awaited mapper promise settled
    mpc,            \* mapWithConcurrency: "idle" | "spawn" | "awaitAll" | "resolved" | "rejected"
    mapperCalls,    \* instrumentation: the indices the mapper was called with, in call order
    outcome,        \* instrumentation: how the mapper call for each index settled
    progressCalls   \* instrumentation: the (completed, item) pairs passed to onProgress

VARIABLES
    rpc,            \* buildDuplicatesReport: "none" | "start" | "scanning" | "scanned" | "hashing" | "report" | "returned"
    walked,         \* file system: the regular files walkDirectory hands to its callback, in order
    content,        \* file system: the content of each file
    statFail,       \* file system: the paths whose stat fails during the scan
    sizeGroups,     \* the Map size -> paths, as its entries in insertion order
    candidates,     \* the candidate paths
    stats,          \* the ScanStats being accumulated
    hashGroups,     \* the Map hash -> paths, as its entries in insertion order
    gi,             \* position of the report loop in hashGroups.entries()
    report,         \* the report text, as its lines
    retErrors,      \* the HashError list that is returned
    reStats,        \* instrumentation: how the fsp.stat of each reported group settled
    log             \* the console.error lines written

VARIABLES
    nodes,          \* file system: the entries below the root, each with its kind and parent
    unreadable,     \* file system: the directories whose readdir fails
    excludePath,    \* collectSizeGroups: the excludePath argument ("" when not given)
    extensions,     \* collectSizeGroups: the extensions argument
    stack,          \* walkDirectory: the calls in progress, innermost first
    fileCount,      \* collectSizeGroups: the local fileCount
    sinkCalls       \* instrumentation: the calls made on the ProgressReporter, in order

VARIABLES
    cpuCount,       \* config: os.cpus().length
    thrown,         \* instrumentation: the indices whose progress callback call threw, in order
    reason,         \* Promise.all(workers): the index whose callback's exception it rejects with
    changed,        \* file system: the paths whose content changed after the scan
    hpc,            \* hashFile: "idle" | "opening" | "reading" | "resolved" | "rejected"
    herror,         \* hashFile: the 'error' event the stream emitted ("" | "open" | "read")
    chunks,         \* hashFile: the file being read, as the chunks the stream delivers
    hpos,           \* hashFile: how many chunks the stream has delivered
    hacc,           \* hashFile: what hash.update has been given so far
    hdigest         \* hashFile: the value the promise resolved with ("" before)

mapVars == << items, limit, onProgress, results, errors, index, completed,
              wpc, wcur, wout, mpc, mapperCalls, outcome, progressCalls >>

scanVars == << nodes, unreadable, excludePath, extensions, stack >>

repVars == << rpc, walked, content, statFail, sizeGroups, candidates, stats,
              hashGroups, gi, report, retErrors, reStats, log, scanVars, fileCount >>

hashVars == << hpc, herror, chunks, hpos, hacc, hdigest >>

envVars == << cpuCount, thrown, reason, changed, hashVars >>

vars == << mapVars, repVars, sinkCalls, envVars >>

\* a call of one of the hooks of the ProgressReporter
SinkCall(hook, count, total, item) ==
    [hook |-> hook, count |-> count, total |-> total, item |-> item]

Len0(arr) == Cardinality(DOMAIN arr)
Indices == DOMAIN items
Workers == DOMAIN wpc

\* --------------------------------------------------------- mapWithConcurrency

\* line 91: Array.from({ length: limit }, ...)
WorkerCountOffByOne(lim) == lim + 1
WorkerCount(lim) == lim

\* before any call: nothing allocated
MapIdle ==
    /\ mpc = "idle"
    /\ items = << >>
    /\ limit = 0
    /\ onProgress = "none"
    /\ results = << >>
    /\ errors = << >>
    /\ index = 0
    /\ completed = 0
    /\ wpc = << >>
    /\ wcur = << >>
    /\ wout = << >>
    /\ mapperCalls = << >>
    /\ outcome = << >>
    /\ progressCalls = << >>

\* lines 56-65: the call mapWithConcurrency(its, lim, mapper, cb) up to the
\* creation of the workers
Enter(its, lim, cb) ==
    /\ mpc = "idle"
    /\ mpc' = "spawn"
    /\ items' = its
    /\ limit' = lim
    /\ onProgress' = cb
    /\ results' = [i \in DOMAIN its |-> HOLE]
    /\ errors' = << >>
    /\ index' = 0
    /\ completed' = 0
    /\ wpc' = [w \in 1..WorkerCount(lim) |-> "new"]
    /\ wcur' = [w \in 1..WorkerCount(lim) |-> -1]
    /\ wout' = [w \in 1..WorkerCount(lim) |-> PENDING]
    /\ mapperCalls' = << >>
    /\ outcome' = [i \in DOMAIN its |-> PENDING]
    /\ progressCalls' = << >>

\* line 82: err instanceof Error ? err : new Error(String(err))
ToError(err) == IF err.isError THEN err ELSE ErrorObj(err.text)

\* line 76 / 78: the slot a settled item is written to
SlotSharedIndex(w) == IF index \in Indices THEN index ELSE wcur[w]
Slot(w) == wcur[w]

\* line 77: catch (err) catches whatever the awaited mapper call threw
CatchesErrorObjectsOnly(o) == o.err.isError
Catches(o) == TRUE

\* lines 75-84: the try/catch around the awaited mapper call
ResultsSkipFailed(w) ==
    IF wout[w].kind = "return"
    THEN [results EXCEPT ![Slot(w)] = wout[w].val]
    ELSE results
ResultsAfter(w) ==
    IF wout[w].kind = "return"
    THEN [results EXCEPT ![Slot(w)] = wout[w].val]
    ELSE [results EXCEPT ![Slot(w)] = NULL]

ErrorsAfter(w) ==
    IF wout[w].kind = "raise"
    THEN Append(errors, [index |-> wcur[w], item |-> items[wcur[w]],
                         error |-> ToError(wout[w].err)])
    ELSE errors

\* report.ts line 81, the callback buildDuplicatesReport passes as onProgress:
\* (completed, filePath) => progress?.updateHashing(completed, candidates.length, filePath)
HashingProgress(args) ==
    IF rpc = "hashing"
    THEN Append(sinkCalls, SinkCall("updateHashing", args.completed, Len(candidates), args.item))
    ELSE sinkCalls

\* lines 86-87: completed++; onProgress?.(completed, items[current])
ProgressArgsBeforeCount(w) == [completed |-> completed, item |-> items[wcur[w]]]
ProgressArgs(w) == [completed |-> completed + 1, item |-> items[wcur[w]]]

\* line 70: index += 1
NextIndexStuck == index
NextIndex == index + 1

\* line 71: current >= items.length
PastEndExclusive(current) == current > Len0(items)
PastEnd(current) == current >= Len0(items)

\* line 92: Promise.all settles with the first rejection among its promises;
\* a later one changes nothing (the exception is named by the index the
\* callback was called for)
NoReason == 0 - 1
LastRejection(i) == i
FirstRejection(i) == IF reason = NoReason THEN i ELSE reason

\* line 87 stands after the try/catch of lines 75-84: what the callback
\* throws is caught by nothing and leaves worker()
CaughtInWorker == FALSE
EscapesWorker == TRUE

\* lines 69-76: claim the next index; past the end the worker returns,
\* otherwise it calls the mapper (which starts running) and awaits it.
Claim(w, pcs, curs) ==
    /\ index' = NextIndex
    /\ IF PastEnd(index)
       THEN /\ wpc' = [pcs EXCEPT ![w] = "done"]
            /\ wcur' = curs
            /\ mapperCalls' = mapperCalls
       ELSE /\ wpc' = [pcs EXCEPT ![w] = "awaiting"]
            /\ wcur' = [curs EXCEPT ![w] = index]
            /\ mapperCalls' = Append(mapperCalls, index)

\* line 91: the next worker() call of Array.from; it runs to its first await.
\* line 92: after the last one, mapWithConcurrency awaits Promise.all.
SpawnWorker ==
    /\ mpc = "spawn"
    /\ \E w \in Workers :
        /\ wpc[w] = "new"
        /\ \A v \in Workers : v < w => wpc[v] # "new"
        /\ Claim(w, wpc, wcur)
        /\ mpc' = IF \A v \in Workers : v > w => wpc[v] # "new"
                  THEN "awaitAll" ELSE "spawn"
    /\ UNCHANGED << items, limit, onProgress, results, errors, completed,
                    wout, outcome, progressCalls >>
    /\ UNCHANGED << repVars, sinkCalls >>
    /\ UNCHANGED envVars

\* The mapper promise a worker awaits settles (test transforms: any outcome).
\* A transform without an await of its own settles its promise during the
\* call, so this can happen while the workers are still being created.
MapperSettles ==
    /\ rpc = "none"
    /\ \E w \in Workers :
        /\ wpc[w] = "awaiting"
        /\ \E o \in GenericOutcomes(items[wcur[w]]) :
            /\ wout' = [wout EXCEPT ![w] = o]
            /\ outcome' = [outcome EXCEPT ![wcur[w]] = o]
        /\ wpc' = [wpc EXCEPT ![w] = "settled"]
    /\ UNCHANGED << items, limit, onProgress, results, errors, index, completed,
                    wcur, mpc, mapperCalls, progressCalls >>
    /\ UNCHANGED << repVars, sinkCalls >>
    /\ UNCHANGED envVars

\* lines 76-88 and back to 69: the worker resumes after its await, stores the
\* result or the error, counts the item, reports progress and claims again.
\* A continuation runs only once the synchronous creation of the workers
\* (line 91-92) has finished.
WorkerResumes ==
    /\ mpc # "spawn"
    /\ \E w \in Workers :
        /\ wpc[w] = "settled"
        /\ wout' = [wout EXCEPT ![w] = PENDING]
        /\ IF wout[w].kind = "raise" /\ ~Catches(wout[w])
           THEN \* an exception nothing catches leaves worker()
                /\ wpc' = [wpc EXCEPT ![w] = "rejected"]
                /\ UNCHANGED << results, errors, completed, progressCalls,
                                wcur, index, mapperCalls, sinkCalls, thrown, reason >>
           ELSE /\ results' = ResultsAfter(w)
                /\ errors' = ErrorsAfter(w)
                /\ completed' = completed + 1
                /\ \/ /\ onProgress = "none"
                      /\ progressCalls' = progressCalls
                      /\ sinkCalls' = sinkCalls
                      /\ UNCHANGED << thrown, reason >>
                      /\ Claim(w, wpc, wcur)
                   \/ /\ onProgress \in {"ok", "throws"}
                      /\ progressCalls' = Append(progressCalls, ProgressArgs(w))
                      /\ sinkCalls' = HashingProgress(ProgressArgs(w))
                      /\ UNCHANGED << thrown, reason >>
                      /\ Claim(w, wpc, wcur)
                   \/ /\ onProgress = "throws"
                      \* the callback throws: the exception leaves worker()
                      /\ progressCalls' = Append(progressCalls, ProgressArgs(w))
                      /\ sinkCalls' = sinkCalls
                      /\ thrown' = Append(thrown, wcur[w])
                      /\ IF EscapesWorker
                         THEN /\ wpc' = [wpc EXCEPT ![w] = "rejected"]
                              /\ reason' = FirstRejection(wcur[w])
                              /\ UNCHANGED << wcur, index, mapperCalls >>
                         ELSE /\ reason' = reason
                              /\ Claim(w, wpc, wcur)
    /\ UNCHANGED << items, limit, onProgress, outcome, mpc >>
    /\ UNCHANGED repVars
    /\ UNCHANGED << cpuCount, changed, hashVars >>

\* line 92: Promise.all(workers) fulfils when every worker promise has
AnyFulfilled == \E w \in Workers : wpc[w] = "done"
AllFulfilled == \A w \in Workers : wpc[w] = "done"

\* line 92-93: Promise.all fulfils once every worker promise has
AllResolve ==
    /\ mpc = "awaitAll"
    /\ AllFulfilled
    /\ mpc' = "resolved"
    /\ UNCHANGED << items, limit, onProgress, results, errors, index, completed,
                    wpc, wcur, wout, mapperCalls, outcome, progressCalls >>
    /\ UNCHANGED << repVars, sinkCalls >>
    /\ UNCHANGED envVars

\* line 92: Promise.all rejects as soon as one worker promise has
AllReject ==
    /\ mpc = "awaitAll"
    /\ \E w \in Workers : wpc[w] = "rejected"
    /\ mpc' = "rejected"
    /\ UNCHANGED << items, limit, onProgress, results, errors, index, completed,
                    wpc, wcur, wout, mapperCalls, outcome, progressCalls >>
    /\ UNCHANGED << repVars, sinkCalls >>
    /\ UNCHANGED envVars

\* ------------------------------------------- specification: the executor
ItemArrays == { [i \in 0..(n - 1) |-> ItemPool[i + 1]] : n \in 0..MaxItems }

\* no CPU count read, no callback has thrown, no file changed, and
\* hashFile is not being looked at on its own
EnvQuiet ==
    /\ thrown = << >>
    /\ reason = NoReason
    /\ changed = {}
    /\ hpc = "idle"
    /\ herror = ""
    /\ chunks = << >>
    /\ hpos = 0
    /\ hacc = ""
    /\ hdigest = ""

EnvIdle == cpuCount = 0 /\ EnvQuiet

\* walkDirectory is not running, no tree is given, no filter and no sink call
NoExtensions == [given |-> FALSE, list |-> {}]
ScanIdle ==
    /\ nodes = << >>
    /\ unreadable = {}
    /\ excludePath = ""
    /\ extensions = NoExtensions
    /\ stack = << >>
    /\ fileCount = 0
    /\ sinkCalls = << >>

\* buildDuplicatesReport is not running
RepIdle ==
    /\ rpc = "none"
    /\ walked = << >>
    /\ content = << >>
    /\ statFail = {}
    /\ sizeGroups = << >>
    /\ candidates = << >>
    /\ stats = << >>
    /\ hashGroups = << >>
    /\ gi = 0
    /\ report = << >>
    /\ retErrors = << >>
    /\ reStats = << >>
    /\ log = << >>
    /\ ScanIdle

\* a caller (the tests) calls mapWithConcurrency with a transform of its own
Call ==
    /\ \E its \in ItemArrays, lim \in 1..MaxLimit, cb \in {"none", "ok", "throws"} :
        Enter(its, lim, cb)
    /\ UNCHANGED << repVars, sinkCalls >>
    /\ UNCHANGED envVars

Init == MapIdle /\ RepIdle /\ EnvIdle

Next ==
    \/ Call
    \/ SpawnWorker
    \/ MapperSettles
    \/ WorkerResumes
    \/ AllResolve
    \/ AllReject

Spec == Init /\ [][Next]_vars

\* The event loop runs every continuation that is ready, and the transforms
\* of the caller are taken to settle: each step of the call that can be
\* taken is taken in the end.  The call itself is up to the caller.
SpecFair ==
    /\ Init
    /\ [][Next]_vars
    /\ WF_vars(SpawnWorker)
    /\ WF_vars(MapperSettles)
    /\ WF_vars(WorkerResumes)
    /\ WF_vars(AllResolve)
    /\ WF_vars(AllReject)

\* ------------------------------------------------------ buildDuplicatesReport

\* the files under the root are the first n of these
FilePool == << "/r/f1", "/r/f2", "/r/f3", "/r/f4", "/r/f5", "/r/f6" >>
\* what a file can contain; "x" and "y" have the same size
Contents == { "x", "y", "zz" }
\* stat.size of a file with content c
Size(c) == Len(c)
\* hash.digest("hex") of content c; distinct contents give distinct digests
Digest(c) == "sha256:" \o c

Max(a, b) == IF a >= b THEN a ELSE b
Min(a, b) == IF a <= b THEN a ELSE b

\* config: Math.max(2, Math.min(8, os.cpus().length || 2))
HashConcurrencyUncapped(cpus) == Max(2, IF cpus = 0 THEN 2 ELSE cpus)
HASH_CONCURRENCY(cpus) == Max(2, Min(8, IF cpus = 0 THEN 2 ELSE cpus))

\* a JavaScript array (indexed from 0) holding the elements of seq
ToArray(seq) == [i \in 0..(Len(seq) - 1) |-> seq[i + 1]]

\* Map.get / push / set on a Map kept as its entries in insertion order:
\* the value is appended to the entry of its key, or a new entry is added last
MapPushInFront(map, key, v) ==
    IF \E k \in 1..Len(map) : map[k].key = key
    THEN [k \in 1..Len(map) |->
            IF map[k].key = key
            THEN [map[k] EXCEPT !.files = << v >> \o @]
            ELSE map[k]]
    ELSE Append(map, [key |-> key, files |-> << v >>])
MapPush(map, key, v) ==
    IF \E k \in 1..Len(map) : map[k].key = key
    THEN [k \in 1..Len(map) |->
            IF map[k].key = key
            THEN [map[k] EXCEPT !.files = Append(@, v)]
            ELSE map[k]]
    ELSE Append(map, [key |-> key, files |-> << v >>])

\* ---------------------------------------------------------------- scan.ts

\* String.prototype.toLowerCase, on the letters the names are written with
LowerChar(c) ==
    CASE c = "T" -> "t" [] c = "X" -> "x" [] c = "J" -> "j"
      [] c = "P" -> "p" [] c = "G" -> "g" [] OTHER -> c
RECURSIVE ToLowerCase(_)
ToLowerCase(str) ==
    IF Len(str) = 0 THEN ""
    ELSE LowerChar(SubSeq(str, 1, 1)) \o ToLowerCase(SubSeq(str, 2, Len(str)))

\* String.prototype.lastIndexOf, counted from 1 (0: not found)
LastIndexOf(str, c) ==
    LET hits == { i \in 1..Len(str) : SubSeq(str, i, i) = c }
    IN IF hits = {} THEN 0 ELSE CHOOSE i \in hits : \A j \in hits : j <= i

\* path.basename and path.extname: the extension runs from the last dot of
\* the base name, a dot in first position does not start one
BaseName(filePath) == SubSeq(filePath, LastIndexOf(filePath, "/") + 1, Len(filePath))
ExtName(filePath) ==
    LET base == BaseName(filePath)
        dot == LastIndexOf(base, ".")
    IN IF dot <= 1 THEN "" ELSE SubSeq(base, dot, Len(base))

\* path.join(dir, entry.name)
PathJoin(dir, name) == dir \o "/" \o name

\* lines 88-90: excludePath && filePath === excludePath
IsExcludedNever(filePath) == FALSE
IsExcluded(filePath) == excludePath # "" /\ filePath = excludePath

\* lines 82, 92-97: the file passes when no list is given or when its
\* extension, in lower case, is an element of the list as given
ExtensionAllowed(filePath) ==
    ~extensions.given \/ ToLowerCase(ExtName(filePath)) \in extensions.list

\* lines 99-106: fsp.stat(filePath); it follows symbolic links
StatFailureAsEmptyFile(filePath) ==
    IF filePath \in statFail \/ filePath \notin DOMAIN content
    THEN [ok |-> TRUE, size |-> 0]
    ELSE [ok |-> TRUE, size |-> Size(content[filePath])]
Stat(filePath) ==
    IF filePath \in statFail \/ filePath \notin DOMAIN content
    THEN [ok |-> FALSE, size |-> 0]
    ELSE [ok |-> TRUE, size |-> Size(content[filePath])]

\* lines 87-122: the callback collectSizeGroups gives to walkDirectory,
\* applied to the scan state acc; the path it is given was listed as a
\* regular file, so stats.isFile() (line 108) holds when the stat succeeds
OnFile(filePath, acc) ==
    IF IsExcluded(filePath) THEN acc
    ELSE IF ~ExtensionAllowed(filePath) THEN acc
    ELSE IF ~Stat(filePath).ok
    THEN [acc EXCEPT !.log = Append(@, [what |-> "Error stating file",
                                        filePath |-> filePath, message |-> "ENOENT"])]
    ELSE [acc EXCEPT
            !.fileCount = @ + 1,
            !.sink = Append(@, SinkCall("updateScanning", acc.fileCount + 1, 0, "")),
            !.groups = MapPush(@, Stat(filePath).size, filePath)]

\* the callback applied to the files the walker reports, one after the other
RECURSIVE ScanFiles(_, _)
ScanFiles(paths, acc) ==
    IF paths = << >> THEN acc
    ELSE ScanFiles(Tail(paths), OnFile(Head(paths), acc))

\* report.ts line 42: await collectSizeGroups(...), the whole scan of a root
\* whose regular files are `walked`
CollectSizeGroups ==
    /\ rpc = "start"
    /\ LET r == ScanFiles(walked,
                  [groups |-> << >>, log |-> log, fileCount |-> 0,
                   sink |-> Append(sinkCalls, SinkCall("startScanning", 0, 0, ""))])
       IN /\ sizeGroups' = r.groups
          /\ log' = r.log
          /\ fileCount' = r.fileCount
          /\ sinkCalls' = Append(r.sink, SinkCall("endScanning", r.fileCount, 0, ""))
    /\ rpc' = "scanned"
    /\ UNCHANGED << walked, content, statFail, candidates, stats, hashGroups,
                    gi, report, retErrors, reStats >>
    /\ UNCHANGED scanVars
    /\ UNCHANGED mapVars
    /\ UNCHANGED envVars

\* lines 44-48: totalFiles
TotalFilesCountsBuckets(groups) == Len(groups)
RECURSIVE TotalFiles(_)
TotalFiles(groups) ==
    IF groups = << >> THEN 0
    ELSE Len(Head(groups).files) + TotalFiles(Tail(groups))

\* line 52: files.length >= 2
IsCandidateBucketAny(files) == Len(files) >= 1
IsCandidateBucket(files) == Len(files) >= 2

\* lines 50-55: candidates
RECURSIVE Candidates(_)
Candidates(groups) ==
    IF groups = << >> THEN << >>
    ELSE IF IsCandidateBucket(Head(groups).files)
         THEN Head(groups).files \o Candidates(Tail(groups))
         ELSE Candidates(Tail(groups))

\* line 66: progress?.startHashing(candidates.length)
StartHashingCallTotalFiles(groups) == SinkCall("startHashing", 0, TotalFiles(groups), "")
StartHashingCall(groups) == SinkCall("startHashing", 0, Len(Candidates(groups)), "")

\* lines 44-70: count, extract the candidates, start the statistics and call
\* mapWithConcurrency(candidates, HASH_CONCURRENCY, <hash mapper>, <progress>)
StartHashing ==
    /\ rpc = "scanned"
    /\ candidates' = Candidates(sizeGroups)
    /\ stats' = [ filesScanned |-> TotalFiles(sizeGroups),
                  filesHashed |-> Len(Candidates(sizeGroups)),
                  hashErrors |-> 0,
                  duplicateGroups |-> 0,
                  duplicateFiles |-> 0,
                  wastedBytes |-> 0 ]
    /\ \E cpus \in 0..MaxCpus :
        Enter(ToArray(Candidates(sizeGroups)), HASH_CONCURRENCY(cpus), "ok")
    /\ rpc' = "hashing"
    /\ sinkCalls' = Append(sinkCalls, StartHashingCall(sizeGroups))
    /\ UNCHANGED << walked, content, statFail, sizeGroups, hashGroups, gi,
                    report, retErrors, reStats, log, scanVars, fileCount >>
    /\ UNCHANGED envVars

\* hash.ts hashFile(filePath): resolves with the digest of the content, or
\* rejects with the stream's error
HashFileFailures ==
    Cardinality({ k \in 1..Len(log) : log[k].what = "Error hashing file" })
HashFile(filePath) ==
    { [ok |-> TRUE, hash |-> Digest(content[filePath]), err |-> NoError] }
    \cup IF HashFileFailures < MaxHashFailures
         THEN { [ok |-> FALSE, hash |-> "", err |-> ErrorObj("EACCES")] }
         ELSE {}

\* report.ts lines 71-80: the mapper given to mapWithConcurrency, applied to
\* filePath when hashFile settled with h
HashMapperOneHash(filePath, h) ==
    IF h.ok THEN Returned(Value(filePath, Digest(""))) ELSE Returned(NULL)
HashMapper(filePath, h) ==
    IF h.ok THEN Returned(Value(filePath, h.hash)) ELSE Returned(NULL)

\* report.ts lines 76-77: what the mapper logs
HashMapperLog(filePath, h) ==
    IF h.ok THEN log
    ELSE Append(log, [what |-> "Error hashing file", filePath |-> filePath,
                      message |-> h.err.text])

\* the hash mapper's promise a worker awaits settles; hashFile settles on a
\* stream event, so never during the synchronous creation of the workers
HashSettlesWith(Outcomes(_)) ==
    /\ rpc = "hashing"
    /\ mpc \in {"awaitAll", "rejected"}
    /\ \E w \in Workers :
        /\ wpc[w] = "awaiting"
        /\ \E h \in Outcomes(items[wcur[w]]) :
            /\ wout' = [wout EXCEPT ![w] = HashMapper(items[wcur[w]], h)]
            /\ outcome' = [outcome EXCEPT ![wcur[w]] = HashMapper(items[wcur[w]], h)]
            /\ log' = HashMapperLog(items[wcur[w]], h)
        /\ wpc' = [wpc EXCEPT ![w] = "settled"]
    /\ UNCHANGED << items, limit, onProgress, results, errors, index, completed,
                    wcur, mpc, mapperCalls, progressCalls >>
    /\ UNCHANGED << rpc, walked, content, statFail, sizeGroups, candidates, stats,
                    hashGroups, gi, report, retErrors, reStats, scanVars,
                    fileCount, sinkCalls >>
    /\ UNCHANGED envVars

HashSettles == HashSettlesWith(HashFile)

\* lines 86-89: hashingResult.errors.map(...)
HashErrors(errs) ==
    [k \in 1..Len(errs) |-> [filePath |-> errs[k].item, error |-> errs[k].error.text]]

\* lines 93-105: group the results, in array order, by hash
RECURSIVE GroupByHashAsCompleted(_, _, _)
GroupByHashAsCompleted(res, i, acc) ==
    IF i >= Len(progressCalls) THEN acc
    ELSE LET j == CHOOSE j \in DOMAIN res : items[j] = progressCalls[i + 1].item IN
         IF res[j].tag # "value"
         THEN GroupByHashAsCompleted(res, i + 1, acc)
         ELSE GroupByHashAsCompleted(res, i + 1, MapPush(acc, res[j].hash, res[j].filePath))
RECURSIVE GroupByHash(_, _, _)
GroupByHash(res, i, acc) ==
    IF i \notin DOMAIN res THEN acc
    ELSE IF res[i].tag # "value"
         THEN GroupByHash(res, i + 1, acc)
         ELSE GroupByHash(res, i + 1, MapPush(acc, res[i].hash, res[i].filePath))

\* lines 84-107: mapWithConcurrency has resolved
GroupResults ==
    /\ rpc = "hashing"
    /\ mpc = "resolved"
    /\ retErrors' = HashErrors(errors)
    /\ stats' = [stats EXCEPT !.hashErrors = Len(HashErrors(errors))]
    /\ hashGroups' = GroupByHash(results, 0, << >>)
    /\ report' = << >>
    /\ gi' = 1
    /\ rpc' = "report"
    /\ sinkCalls' = Append(sinkCalls, SinkCall("endHashing", 0, 0, ""))
    /\ UNCHANGED << walked, content, statFail, sizeGroups, candidates, reStats, log,
                    scanVars, fileCount >>
    /\ UNCHANGED mapVars
    /\ UNCHANGED envVars

\* line 109: files.length < 2 is skipped
IsDuplicateGroupAny(files) == Len(files) >= 1
IsDuplicateGroup(files) == Len(files) >= 2

\* line 114: stats.duplicateFiles += files.length
DuplicateFilesAddCopies(files) == Len(files) - 1
DuplicateFilesAdd(files) == Len(files)

\* line 119: fsp.stat(files[0]) succeeds with the file's size, or throws
ReStat(filePath) ==
    { [ok |-> TRUE, size |-> Size(content[filePath])],
      [ok |-> FALSE, size |-> 0] }

\* lines 118-123: the bytes a group adds to wastedBytes
WastedGuessedOnFailure(st, files) ==
    IF st.ok THEN st.size * (Len(files) - 1) ELSE Len(files) - 1
WastedAllCopies(st, files) == IF st.ok THEN st.size * Len(files) ELSE 0
Wasted(st, files) == IF st.ok THEN st.size * (Len(files) - 1) ELSE 0

\* lines 125-129: the lines one group adds to the report
BlockLinesCopiesOnly(hash, files) ==
    << [line |-> "Hash: ", arg |-> hash] >>
    \o [k \in 1..(Len(files) - 1) |-> [line |-> "- ", arg |-> files[k + 1]]]
    \o << [line |-> "", arg |-> ""] >>
BlockLines(hash, files) ==
    << [line |-> "Hash: ", arg |-> hash] >>
    \o [k \in 1..Len(files) |-> [line |-> "- ", arg |-> files[k]]]
    \o << [line |-> "", arg |-> ""] >>

\* lines 108-130: one turn of the loop over hashGroups.entries()
ReportGroup ==
    /\ rpc = "report"
    /\ gi <= Len(hashGroups)
    /\ LET files == hashGroups[gi].files
           hash == hashGroups[gi].key
       IN IF ~IsDuplicateGroup(files)
          THEN UNCHANGED << stats, report, reStats >>
          ELSE \E st \in ReStat(files[1]) :
                /\ reStats' = Append(reStats, [filePath |-> files[1], ok |-> st.ok])
                /\ stats' = [stats EXCEPT
                                !.duplicateGroups = @ + 1,
                                !.duplicateFiles = @ + DuplicateFilesAdd(files),
                                !.wastedBytes = @ + Wasted(st, files)]
                /\ report' = report \o BlockLines(hash, files)
    /\ gi' = gi + 1
    /\ UNCHANGED << rpc, walked, content, statFail, sizeGroups, candidates,
                    hashGroups, retErrors, log, scanVars, fileCount, sinkCalls >>
    /\ UNCHANGED mapVars
    /\ UNCHANGED envVars

\* line 132: return { report, errors, stats }
Return ==
    /\ rpc = "report"
    /\ gi > Len(hashGroups)
    /\ rpc' = "returned"
    /\ UNCHANGED << walked, content, statFail, sizeGroups, candidates, stats,
                    hashGroups, gi, report, retErrors, reStats, log, scanVars,
                    fileCount, sinkCalls >>
    /\ UNCHANGED mapVars
    /\ UNCHANGED envVars

\* ------------------------------------ specification: buildDuplicatesReport
FileSystems ==
    { [walked |-> SubSeq(FilePool, 1, n), content |-> c, statFail |-> sf] :
        n \in 0..MaxFiles,
        c \in UNION { [{ FilePool[k] : k \in 1..m } -> Contents] : m \in 0..MaxFiles },
        sf \in { {} } \cup { { FilePool[k] } : k \in 1..MaxFiles } }

InitReport ==
    /\ MapIdle
    /\ EnvIdle
    /\ rpc = "start"
    /\ \E fs \in FileSystems :
        /\ DOMAIN fs.content = { fs.walked[k] : k \in 1..Len(fs.walked) }
        /\ fs.statFail \subseteq DOMAIN fs.content
        \* "x" and "y" are interchangeable: "x" names the one met first
        /\ \A k \in 1..Len(fs.walked) :
              fs.content[fs.walked[k]] = "y" =>
                \E j \in 1..(k - 1) : fs.content[fs.walked[j]] = "x"
        /\ walked = fs.walked
        /\ content = fs.content
        /\ statFail = fs.statFail
    /\ sizeGroups = << >>
    /\ candidates = << >>
    /\ stats = << >>
    /\ hashGroups = << >>
    /\ gi = 0
    /\ report = << >>
    /\ retErrors = << >>
    /\ reStats = << >>
    /\ log = << >>
    /\ ScanIdle

NextReport ==
    \/ CollectSizeGroups
    \/ StartHashing
    \/ SpawnWorker
    \/ HashSettles
    \/ WorkerResumes
    \/ AllResolve
    \/ GroupResults
    \/ ReportGroup
    \/ Return

SpecReport == InitReport /\ [][NextReport]_vars

\* ------------------- specification: the report over files that change
\* Nothing holds the files still between line 42 (the scan stats them) and
\* lines 68-82 (hashFile reads them): another process rewrites a file.
FileChanges ==
    /\ rpc = "scanned"
    /\ Cardinality(changed) < MaxChanges
    /\ \E f \in (DOMAIN content) \ changed :
      \E c \in Contents \ { content[f] } :
        /\ content' = [content EXCEPT ![f] = c]
        /\ changed' = changed \cup { f }
    /\ UNCHANGED << rpc, walked, statFail, sizeGroups, candidates, stats, hashGroups,
                    gi, report, retErrors, reStats, log, scanVars, fileCount >>
    /\ UNCHANGED << mapVars, sinkCalls, cpuCount, thrown, reason, hashVars >>

\* hashFile reads the file to its end
HashFileRead(filePath) == { h \in HashFile(filePath) : h.ok }

\* the hash mapper's promise settles, every file being readable
HashReads == HashSettlesWith(HashFileRead)

InitRace == InitReport /\ statFail = {}

NextRace ==
    \/ CollectSizeGroups
    \/ FileChanges
    \/ StartHashing
    \/ SpawnWorker
    \/ HashReads
    \/ WorkerResumes
    \/ AllResolve
    \/ GroupResults
    \/ ReportGroup
    \/ Return

SpecRace == InitRace /\ [][NextRace]_vars

\* ------------------------------- specification: the executor's worker count
\* config.ts line 4 reads os.cpus().length once, when the module is loaded;
\* report.ts lines 68-70 pass the constant to mapWithConcurrency with the
\* candidates, however many there are
HashCandidates ==
    /\ \E its \in ItemArrays : Enter(its, HASH_CONCURRENCY(cpuCount), "ok")
    /\ UNCHANGED << repVars, sinkCalls >>
    /\ UNCHANGED envVars

InitConfig ==
    /\ MapIdle
    /\ RepIdle
    /\ EnvQuiet
    /\ cpuCount \in 0..MaxCpuCount

NextConfig ==
    \/ HashCandidates
    \/ SpawnWorker

SpecConfig == InitConfig /\ [][NextConfig]_vars

\* ---------------------------------------------- specification: hashFile
\* hash.ts lines 19-28.  The read stream opens the file, emits 'data' for
\* each chunk in file order, then 'end'; on a failure it emits 'error' and is
\* destroyed, after which it emits neither 'data' nor 'end'.
ChunkPool == {"x", "y"}

RECURSIVE SeqsUpTo(_)
SeqsUpTo(n) ==
    IF n = 0 THEN { << >> }
    ELSE SeqsUpTo(n - 1) \cup
         { Append(q, c) : q \in { r \in SeqsUpTo(n - 1) : Len(r) = n - 1 }, c \in ChunkPool }

\* the bytes of a file delivered as the chunks cs
RECURSIVE Concat(_)
Concat(cs) == IF cs = << >> THEN "" ELSE cs[1] \o Concat(Tail(cs))

\* line 25: hash.update(chunk) feeds the chunk to the running hash
HashUpdate(acc, chunk) == acc \o chunk

\* line 24: stream.on("error", reject)
OnErrorIgnored(pc) == pc
OnError(pc) == "rejected"

\* lines 20-26: the promise is created, the hash and the stream are set up
\* and the three listeners attached
HashFileCall ==
    /\ hpc = "idle"
    /\ hpc' = "opening"
    /\ hacc' = ""
    /\ UNCHANGED << herror, chunks, hpos, hdigest >>
    /\ UNCHANGED << mapVars, repVars, sinkCalls, cpuCount, thrown, reason, changed >>

\* the file is opened
StreamOpens ==
    /\ hpc = "opening"
    /\ herror = ""
    /\ hpc' = "reading"
    /\ UNCHANGED << herror, chunks, hpos, hacc, hdigest >>
    /\ UNCHANGED << mapVars, repVars, sinkCalls, cpuCount, thrown, reason, changed >>

\* line 24: the file cannot be opened (it does not exist, it was removed
\* after the scan, permission is denied) or a read fails
StreamError ==
    /\ hpc \in {"opening", "reading"}
    /\ herror = ""
    /\ herror' = IF hpc = "opening" THEN "open" ELSE "read"
    /\ hpc' = OnError(hpc)
    /\ UNCHANGED << chunks, hpos, hacc, hdigest >>
    /\ UNCHANGED << mapVars, repVars, sinkCalls, cpuCount, thrown, reason, changed >>

\* line 25: the next chunk arrives
StreamData ==
    /\ hpc = "reading"
    /\ herror = ""
    /\ hpos < Len(chunks)
    /\ hacc' = HashUpdate(hacc, chunks[hpos + 1])
    /\ hpos' = hpos + 1
    /\ UNCHANGED << hpc, herror, chunks, hdigest >>
    /\ UNCHANGED << mapVars, repVars, sinkCalls, cpuCount, thrown, reason, changed >>

\* line 26: every chunk was delivered: resolve(hash.digest("hex"))
StreamEnd ==
    /\ hpc = "reading"
    /\ herror = ""
    /\ hpos = Len(chunks)
    /\ hdigest' = Digest(hacc)
    /\ hpc' = "resolved"
    /\ UNCHANGED << herror, chunks, hpos, hacc >>
    /\ UNCHANGED << mapVars, repVars, sinkCalls, cpuCount, thrown, reason, changed >>

InitHash ==
    /\ MapIdle
    /\ RepIdle
    /\ cpuCount = 0
    /\ thrown = << >>
    /\ reason = NoReason
    /\ changed = {}
    /\ hpc = "idle"
    /\ herror = ""
    /\ chunks \in SeqsUpTo(MaxChunks)
    /\ hpos = 0
    /\ hacc = ""
    /\ hdigest = ""

NextHash ==
    \/ HashFileCall
    \/ StreamOpens
    \/ StreamError
    \/ StreamData
    \/ StreamEnd

SpecHash == InitHash /\ [][NextHash]_vars

\* ------------------------------------------------- scan.ts walkDirectory

\* the root directory, and the names of the entries below it: entry k of
\* the tree is called EntryNames[k]
Root == "/r"
EntryNames == << "a.txt", "b.TXT", "c.jpg", "d.txt", "e.JPG", "f.TXT" >>

\* what an entry can be: a regular file (data: its content), a directory, a
\* symbolic link (data: what it points to) or something else (a FIFO, a
\* socket, a device)
EntryShapes ==
    { e \in [kind : {"file", "dir", "link", "other"},
             data : {"x", "zz", "file", "dir", ""},
             parent : 0..(MaxNodes - 1)] :
        \/ e.kind = "file" /\ e.data \in {"x", "zz"}
        \/ e.kind = "link" /\ e.data \in {"file", "dir"}
        \/ e.kind \in {"dir", "other"} /\ e.data = "" }

\* the trees of at most MaxNodes entries: an entry lies in the root
\* (parent 0) or in a directory listed before it
Trees ==
    UNION { { ns \in [1..n -> EntryShapes] :
                \A k \in 1..n :
                    /\ ns[k].parent < k
                    /\ ns[k].parent # 0 => ns[ns[k].parent].kind = "dir" } :
            n \in 0..MaxNodes }

\* the path of entry k (0: the root)
RECURSIVE PathOf(_, _)
PathOf(ns, k) ==
    IF k = 0 THEN Root ELSE PathJoin(PathOf(ns, ns[k].parent), EntryNames[k])

\* what a symbolic link resolves to: a link to a file points to the first
\* regular file of the tree (it dangles when there is none), a link to a
\* directory points back to the root
FirstFile(ns) ==
    LET fs == { k \in 1..Len(ns) : ns[k].kind = "file" }
    IN IF fs = {} THEN 0 ELSE CHOOSE k \in fs : \A j \in fs : k <= j
Resolve(ns, k) ==
    IF ns[k].kind # "link" THEN k
    ELSE IF ns[k].data = "file" THEN FirstFile(ns) ELSE 0

\* what a stat through each path reads: the content of a regular file,
\* also through a link to it
ContentOf(ns) ==
    [ f \in { PathOf(ns, k) : k \in { j \in 1..Len(ns) :
                                   /\ Resolve(ns, j) # 0
                                   /\ ns[Resolve(ns, j)].kind = "file" } } |->
        LET k == CHOOSE j \in 1..Len(ns) : PathOf(ns, j) = f
        IN ns[Resolve(ns, k)].data ]

\* line 27: fsp.readdir(dir, { withFileTypes: true }), as the entries of the
\* directory in listing order; a Dirent has the type of the entry itself
Readdir(d) == SelectSeq([k \in 1..Len(nodes) |-> k], LAMBDA k : nodes[k].parent = d)
DirentFollowsLinks(k) ==
    [name |-> EntryNames[k],
     kind |-> IF nodes[k].kind = "link" THEN nodes[k].data ELSE nodes[k].kind]
Dirent(k) == [name |-> EntryNames[k], kind |-> nodes[k].kind]

\* lines 38, 42, 47: entry.isSymbolicLink(), isDirectory(), isFile()
IsSymbolicLink(entry) == entry.kind = "link"
IsDirectory(entry) == entry.kind = "dir"
IsFileUnlessDirectory(entry) == entry.kind # "dir"
IsFile(entry) == entry.kind = "file"

\* a call walkDirectory(dir, onFile) that has not read its directory yet;
\* node is the directory the path leads to
Frame(dir, node) == [dir |-> dir, node |-> node, read |-> FALSE, entries |-> << >>]

\* the scan state the callback works on
ScanState == [groups |-> sizeGroups, log |-> log, fileCount |-> fileCount, sink |-> sinkCalls]

\* scan.ts lines 81-87: collectSizeGroups up to the readdir of the root
StartScanning ==
    /\ rpc = "start"
    /\ rpc' = "scanning"
    /\ sinkCalls' = Append(sinkCalls, SinkCall("startScanning", 0, 0, ""))
    /\ stack' = << Frame(Root, 0) >>
    /\ sizeGroups' = << >>
    /\ fileCount' = 0
    /\ UNCHANGED << walked, content, statFail, candidates, stats, hashGroups, gi,
                    report, retErrors, reStats, log >>
    /\ UNCHANGED << nodes, unreadable, excludePath, extensions >>
    /\ UNCHANGED mapVars
    /\ UNCHANGED envVars

\* lines 28-32: the catch around readdir ends with `return`: the innermost
\* call is over, the calls around it go on
AbortAfterFailure(calls) == << >>
ReturnAfterFailure(calls) == Tail(calls)

\* lines 25-32: the readdir of the innermost call settles; a failure is
\* logged and the call returns
ReadDir ==
    /\ rpc = "scanning"
    /\ stack # << >>
    /\ ~Head(stack).read
    /\ IF Head(stack).dir \in unreadable
       THEN /\ log' = Append(log, [what |-> "Error reading directory",
                                   filePath |-> Head(stack).dir, message |-> "EACCES"])
            /\ stack' = ReturnAfterFailure(stack)
       ELSE /\ log' = log
            /\ stack' = << [Head(stack) EXCEPT !.read = TRUE,
                                               !.entries = Readdir(Head(stack).node)] >>
                        \o Tail(stack)
    /\ UNCHANGED << rpc, walked, content, statFail, sizeGroups, candidates, stats,
                    hashGroups, gi, report, retErrors, reStats, fileCount, sinkCalls >>
    /\ UNCHANGED << nodes, unreadable, excludePath, extensions >>
    /\ UNCHANGED mapVars
    /\ UNCHANGED envVars

\* lines 34-50: one turn of the loop over the entries: a symbolic link is
\* skipped, a directory is walked (up to its readdir), a file is handed to
\* the callback (which runs up to the next entry), anything else is skipped
VisitEntry ==
    /\ rpc = "scanning"
    /\ stack # << >>
    /\ Head(stack).read
    /\ Head(stack).entries # << >>
    /\ LET entry == Dirent(Head(Head(stack).entries))
           fullPath == PathJoin(Head(stack).dir, entry.name)
           rest == << [Head(stack) EXCEPT !.entries = Tail(@)] >> \o Tail(stack)
       IN IF IsSymbolicLink(entry)
          THEN /\ stack' = rest
               /\ UNCHANGED << walked, sizeGroups, log, fileCount, sinkCalls >>
          ELSE IF IsDirectory(entry)
          THEN /\ stack' = << Frame(fullPath, Resolve(nodes, Head(Head(stack).entries))) >>
                           \o rest
               /\ UNCHANGED << walked, sizeGroups, log, fileCount, sinkCalls >>
          ELSE IF IsFile(entry)
          THEN /\ stack' = rest
               /\ walked' = Append(walked, fullPath)
               /\ sizeGroups' = OnFile(fullPath, ScanState).groups
               /\ log' = OnFile(fullPath, ScanState).log
               /\ fileCount' = OnFile(fullPath, ScanState).fileCount
               /\ sinkCalls' = OnFile(fullPath, ScanState).sink
          ELSE /\ stack' = rest
               /\ UNCHANGED << walked, sizeGroups, log, fileCount, sinkCalls >>
    /\ UNCHANGED << rpc, content, statFail, candidates, stats, hashGroups, gi,
                    report, retErrors, reStats >>
    /\ UNCHANGED << nodes, unreadable, excludePath, extensions >>
    /\ UNCHANGED mapVars
    /\ UNCHANGED envVars

\* line 51: the loop of the innermost call is over, the call returns
LeaveDir ==
    /\ rpc = "scanning"
    /\ stack # << >>
    /\ Head(stack).read
    /\ Head(stack).entries = << >>
    /\ stack' = Tail(stack)
    /\ UNCHANGED << rpc, walked, content, statFail, sizeGroups, candidates, stats,
                    hashGroups, gi, report, retErrors, reStats, log, fileCount,
                    sinkCalls >>
    /\ UNCHANGED << nodes, unreadable, excludePath, extensions >>
    /\ UNCHANGED mapVars
    /\ UNCHANGED envVars

\* scan.ts lines 124-126: the walk has returned
EndScanning ==
    /\ rpc = "scanning"
    /\ stack = << >>
    /\ sinkCalls' = Append(sinkCalls, SinkCall("endScanning", fileCount, 0, ""))
    /\ rpc' = "scanned"
    /\ UNCHANGED << walked, content, statFail, sizeGroups, candidates, stats,
                    hashGroups, gi, report, retErrors, reStats, log, fileCount >>
    /\ UNCHANGED scanVars
    /\ UNCHANGED mapVars
    /\ UNCHANGED envVars

\* ------------------- specification: buildDuplicatesReport over a directory tree

\* the allow-lists a caller passes: none, or one with an entry in lower case
\* and an entry in upper case
ExtensionLists == { NoExtensions, [given |-> TRUE, list |-> {".txt", ".JPG"}] }

InitScan ==
    /\ MapIdle
    /\ EnvIdle
    /\ rpc = "start"
    /\ nodes \in Trees
    /\ content = ContentOf(nodes)
    /\ walked = << >>
    \* at most one path fails: the stat of a file or the readdir of a directory
    /\ \E bad \in {-1} \cup (0..Len(nodes)) :
        /\ bad > 0 => nodes[bad].kind \in {"file", "dir"}
        /\ statFail = IF bad > 0 /\ nodes[bad].kind = "file"
                      THEN { PathOf(nodes, bad) } ELSE {}
        /\ unreadable = IF bad = 0 \/ (bad > 0 /\ nodes[bad].kind = "dir")
                        THEN { PathOf(nodes, bad) } ELSE {}
    /\ excludePath \in {""} \cup { PathOf(nodes, k) :
                                    k \in { j \in 1..Len(nodes) : nodes[j].kind = "file" } }
    /\ extensions \in ExtensionLists
    \* the filters are tried on trees that can be read throughout
    /\ (excludePath # "" \/ extensions.given) => (statFail = {} /\ unreadable = {})
    /\ stack = << >>
    /\ fileCount = 0
    /\ sinkCalls = << >>
    /\ sizeGroups = << >>
    /\ candidates = << >>
    /\ stats = << >>
    /\ hashGroups = << >>
    /\ gi = 0
    /\ report = << >>
    /\ retErrors = << >>
    /\ reStats = << >>
    /\ log = << >>

NextScan ==
    \/ StartScanning
    \/ ReadDir
    \/ VisitEntry
    \/ LeaveDir
    \/ EndScanning
    \/ StartHashing
    \/ SpawnWorker
    \/ HashSettles
    \/ WorkerResumes
    \/ AllResolve
    \/ GroupResults
    \/ ReportGroup
    \/ Return

SpecScan == InitScan /\ [][NextScan]_vars

\* ===================================================== claims: the executor

Range(seq) == { seq[k] : k \in 1..Len(seq) }

\* the indices whose mapper call has started and has not settled
InFlight == { i \in Indices : i \in Range(mapperCalls) /\ outcome[i] = PENDING }

\* C1: at no time are more than `limit` mapper calls started and not yet
\* settled, for every item count, every limit >= 1 and every interleaving.
C1_ConcurrencyBound == Cardinality(InFlight) <= limit

\* the bound is reached while an item is still waiting to be claimed
C1_Witness ==
    /\ Cardinality(InFlight) = limit
    /\ limit = 2
    /\ index < Len0(items)

\* what the slot of an item must hold, given how its mapper call settled
SlotFor(o) == IF o.kind = "return" THEN o.val ELSE NULL

\* C2: when mapWithConcurrency resolves, results[i] holds the outcome of the
\* mapper call made for items[i], whatever order the calls completed in.
C2_OrderPreserved ==
    mpc = "resolved" =>
        \A i \in Indices :
            /\ outcome[i] \in GenericOutcomes(items[i])
            /\ results[i] = SlotFor(outcome[i])

\* resolved after the second item finished before the first, both with values
C2_Witness ==
    /\ mpc = "resolved"
    /\ Len0(items) >= 3
    /\ Len(progressCalls) >= 2
    /\ progressCalls[1].item = items[1]
    /\ progressCalls[2].item = items[0]
    /\ \A i \in Indices : results[i] = ValueOf(items[i])

ErrorEntriesFor(i) == { k \in 1..Len(errors) : errors[k].index = i }

\* the per-index alternative of C3, with the error entry's error given by Err(i, k)
C3_Shape(ErrOk(_, _)) ==
    /\ DOMAIN results = DOMAIN items
    /\ \A i \in Indices :
        \/ /\ outcome[i].kind = "return"
           /\ results[i] = outcome[i].val
           /\ ErrorEntriesFor(i) = {}
        \/ /\ outcome[i].kind = "raise"
           /\ results[i] = NULL
           /\ Cardinality(ErrorEntriesFor(i)) = 1
           /\ \A k \in ErrorEntriesFor(i) :
                /\ errors[k].item = items[i]
                /\ ErrOk(i, k)

C3_ErrIsRaised(i, k) == errors[k].error = outcome[i].err
C3_ErrIsRaisedOrWrapped(i, k) ==
    /\ errors[k].error.isError
    /\ errors[k].error.text = outcome[i].err.text
    /\ outcome[i].err.isError => errors[k].error = outcome[i].err

\* C3 as stated: on resolution results has the length of items and every
\* index either returned (slot = the value, no error entry) or raised (slot
\* null, exactly one error entry with that index, that item, and the very
\* failure that was raised).
C3_AsStated == mpc = "resolved" => C3_Shape(C3_ErrIsRaised)

\* C3 amended: the same, but the entry's error is the failure raised only
\* when that failure is an Error object; any other thrown value is recorded
\* as a new Error whose message is the string form of the value.
C3_Amended == mpc = "resolved" => C3_Shape(C3_ErrIsRaisedOrWrapped)

\* resolved with a returned value, a returned null, and a raised non-Error
C3_Witness ==
    /\ mpc = "resolved"
    /\ \E i, j, k \in Indices :
        /\ outcome[i] = Returned(ValueOf(items[i]))
        /\ outcome[j] = Returned(NULL)
        /\ outcome[k] = Raised(NonError("oops"))

CallsOf(i) == { k \in 1..Len(mapperCalls) : mapperCalls[k] = i }

\* C4: a mapper call that raises never keeps another item from being
\* transformed: on resolution every index was claimed and its mapper run
\* once and its slot finalized, and unless the progress callback throws the
\* returned promise never rejects.
C4_FailureIsolated ==
    /\ onProgress # "throws" => mpc # "rejected"
    /\ onProgress # "throws" =>
            \A w \in Workers : wpc[w] # "rejected"
    /\ mpc = "resolved" =>
            \A i \in Indices :
                /\ Cardinality(CallsOf(i)) = 1
                /\ results[i] # HOLE
                /\ outcome[i] # PENDING

\* the first item raised, and the run resolved with the others transformed
C4_Witness ==
    /\ mpc = "resolved"
    /\ Len0(items) >= 3
    /\ outcome[0].kind = "raise"
    /\ \A i \in Indices \ {0} : results[i] = ValueOf(items[i])

\* ========================================== claims: buildDuplicatesReport

\* how often path f is a member of some digest group
GroupMemberships(f) ==
    Cardinality({ << g, k >> \in (1..Len(hashGroups)) \X (1..MaxFiles + 1) :
                    /\ k <= Len(hashGroups[g].files)
                    /\ hashGroups[g].files[k] = f })

\* how many entries of the returned errors list are about path f
ErrorEntriesAbout(f) ==
    Cardinality({ k \in 1..Len(retErrors) : retErrors[k].filePath = f })

\* C5: after buildDuplicatesReport returns, every candidate is a member of
\* exactly one digest group or the subject of exactly one entry of the
\* returned errors list, never both and never neither.
C5_AsStated ==
    rpc = "returned" =>
        \A c \in 1..Len(candidates) :
            \/ /\ GroupMemberships(candidates[c]) = 1
               /\ ErrorEntriesAbout(candidates[c]) = 0
            \/ /\ GroupMemberships(candidates[c]) = 0
               /\ ErrorEntriesAbout(candidates[c]) = 1

\* the console.error lines of the hash mapper: one per failed hashFile call
HashFailureLogs == { k \in 1..Len(log) : log[k].what = "Error hashing file" }

\* C6: when hashFile fails for a candidate, the returned errors list has an
\* entry with that file's path and the failure message (and the report is
\* still built from the candidates that hashed).
C6_AsStated ==
    rpc = "returned" =>
        \A k \in HashFailureLogs :
            \E e \in 1..Len(retErrors) :
                /\ retErrors[e].filePath = log[k].filePath
                /\ retErrors[e].error = log[k].message

\* the size bucket holding path f, and f's position in it
BucketsOf(f) ==
    { b \in 1..Len(sizeGroups) :
        \E m \in 1..Len(sizeGroups[b].files) : sizeGroups[b].files[m] = f }
BucketOf(f) == CHOOSE b \in BucketsOf(f) : TRUE
MemberOf(f) ==
    CHOOSE m \in 1..Len(sizeGroups[BucketOf(f)].files) :
        sizeGroups[BucketOf(f)].files[m] = f

\* the paths hashFile was called for
Hashed == { items[mapperCalls[k]] : k \in 1..Len(mapperCalls) }

\* C7: the candidates passed to the executor are exactly the files of the
\* size buckets with two or more members, each once, in bucket order and
\* then member order; no file of a one-member bucket is ever hashed.
C7_Candidates ==
    rpc = "returned" =>
        /\ items = ToArray(candidates)
        /\ \A k \in 1..Len(candidates) :
            /\ BucketsOf(candidates[k]) # {}
            /\ Len(sizeGroups[BucketOf(candidates[k])].files) >= 2
        /\ \A b \in 1..Len(sizeGroups) :
            Len(sizeGroups[b].files) >= 2 =>
                \A m \in 1..Len(sizeGroups[b].files) :
                    Cardinality({ k \in 1..Len(candidates) :
                                    candidates[k] = sizeGroups[b].files[m] }) = 1
        /\ \A k, l \in 1..Len(candidates) :
            k < l =>
                \/ BucketOf(candidates[k]) < BucketOf(candidates[l])
                \/ /\ BucketOf(candidates[k]) = BucketOf(candidates[l])
                   /\ MemberOf(candidates[k]) < MemberOf(candidates[l])
        /\ \A f \in Hashed : Len(sizeGroups[BucketOf(f)].files) >= 2

\* a one-member bucket comes first, its file is left out, and the files of
\* the bucket after it were all hashed
C7_Witness ==
    /\ rpc = "returned"
    /\ Len(sizeGroups) = 2
    /\ Len(sizeGroups[1].files) = 1
    /\ Len(sizeGroups[2].files) = 3
    /\ Hashed = { sizeGroups[2].files[m] : m \in 1..3 }

Digests == { Digest(c) : c \in Contents }

\* the candidates (by index) whose hashing succeeded with digest d
Producers(d) ==
    { i \in Indices : outcome[i].val.tag = "value" /\ outcome[i].val.hash = d }

HashLines(d) == { k \in 1..Len(report) : report[k] = [line |-> "Hash: ", arg |-> d] }

\* the number of "- " lines that directly follow line k of the report
BlockLen(k) ==
    Cardinality({ j \in (k + 1)..Len(report) :
                    \A l \in (k + 1)..j : report[l].line = "- " })
BlockPaths(k) == { report[k + m].arg : m \in 1..BlockLen(k) }

\* C8: the report has a block for a digest iff at least two successfully
\* hashed candidates produced it, the block lists exactly those candidates,
\* and a file that is alone with its digest appears nowhere in the report.
C8_Blocks ==
    rpc = "returned" =>
        /\ \A d \in Digests :
            /\ HashLines(d) # {} <=> Cardinality(Producers(d)) >= 2
            /\ Cardinality(HashLines(d)) <= 1
            /\ \A k \in HashLines(d) :
                /\ BlockPaths(k) = { items[i] : i \in Producers(d) }
                /\ BlockLen(k) = Cardinality(Producers(d))
        /\ \A k \in 1..Len(report) :
            /\ report[k].line = "Hash: " => report[k].arg \in Digests
            /\ report[k].line = "- " =>
                \E d \in Digests :
                    /\ Cardinality(Producers(d)) >= 2
                    /\ \E i \in Producers(d) : items[i] = report[k].arg

\* one digest was produced by two candidates and another by a single one
C8_Witness ==
    /\ rpc = "returned"
    /\ \E d1, d2 \in Digests :
        /\ Cardinality(Producers(d1)) = 2
        /\ Cardinality(Producers(d2)) = 1
    /\ report # << >>

\* C9: if there is no candidate, or no digest group reaches two members,
\* the returned report is the empty string and duplicateGroups is 0.
C9_NoDuplicates ==
    (rpc = "returned" /\ \A d \in Digests : Cardinality(Producers(d)) < 2) =>
        /\ report = << >>
        /\ stats.duplicateGroups = 0

\* candidates were hashed successfully, and no two of them alike
C9_Witness ==
    /\ rpc = "returned"
    /\ Len(candidates) >= 2
    /\ \A i \in Indices : outcome[i].val.tag = "value"
    /\ \A d \in Digests : Cardinality(Producers(d)) < 2

DuplicateDigests == { d \in Digests : Cardinality(Producers(d)) >= 2 }

\* C10: duplicateGroups is the number of digest groups with two or more
\* members, which is the number of "Hash: " lines, and duplicateFiles is the
\* sum of their member counts, which is the number of "- " lines.
C10_Counts ==
    rpc = "returned" =>
        /\ stats.duplicateGroups = Cardinality(DuplicateDigests)
        /\ stats.duplicateGroups =
                Cardinality({ k \in 1..Len(report) : report[k].line = "Hash: " })
        /\ stats.duplicateFiles =
                Cardinality({ i \in Indices : \E d \in DuplicateDigests : i \in Producers(d) })
        /\ stats.duplicateFiles =
                Cardinality({ k \in 1..Len(report) : report[k].line = "- " })

\* two duplicate groups of two files each
C10_Witness ==
    /\ rpc = "returned"
    /\ stats.duplicateGroups = 2
    /\ stats.duplicateFiles = 4

\* size x (member count - 1), summed over the duplicate digests in ds; the
\* size is that of the content the digest stands for
RECURSIVE SumWasted(_)
SumWasted(cs) ==
    IF cs = {} THEN 0
    ELSE LET c == CHOOSE x \in cs : TRUE
             n == Cardinality(Producers(Digest(c)))
         IN (IF n >= 2 THEN Size(c) * (n - 1) ELSE 0) + SumWasted(cs \ {c})

\* C11: when every re-stat succeeds (the files do not change during a run),
\* the returned stats.wastedBytes is the sum over the duplicate groups of
\* the group's file size times (member count - 1).
C11_WastedBytes ==
    (rpc = "returned" /\ \A k \in 1..Len(reStats) : reStats[k].ok) =>
        stats.wastedBytes = SumWasted(Contents)

\* two duplicate groups of different file sizes, both re-stats succeeded
C11_Witness ==
    /\ rpc = "returned"
    /\ Len(reStats) = 2
    /\ \A k \in 1..2 : reStats[k].ok
    /\ Cardinality(Producers(Digest("x"))) = 2
    /\ Cardinality(Producers(Digest("zz"))) = 2
    /\ stats.wastedBytes = 3

\* ================================================ claims: the executor (2)

\* the invocations of the progress callback made for items[i]
ProgressCallsFor(i) ==
    { k \in 1..Len(progressCalls) : progressCalls[k].item = items[i] }

\* C15: a supplied progress callback is invoked once per item, whether its
\* transform returned or raised, only after the item's slot is final, and
\* the k-th invocation carries completed = k (the last one completed = N).
C15_Progress ==
    onProgress # "none" =>
        /\ \A k \in 1..Len(progressCalls) :
            /\ progressCalls[k].completed = k
            /\ \E i \in Indices :
                /\ progressCalls[k].item = items[i]
                /\ outcome[i] # PENDING
                /\ results[i] = SlotFor(outcome[i])
        /\ \A i \in Indices : Cardinality(ProgressCallsFor(i)) <= 1
        /\ mpc = "resolved" =>
            /\ \A i \in Indices : Cardinality(ProgressCallsFor(i)) = 1
            /\ Len(progressCalls) = Len0(items)
            /\ Len0(items) > 0 => progressCalls[Len0(items)].completed = Len0(items)

\* three items done, one raised and one returned, the first call of the
\* callback was not for the first item
C15_Witness ==
    /\ mpc = "resolved"
    /\ onProgress = "ok"
    /\ Len0(items) = 3
    /\ Len(progressCalls) = 3
    /\ progressCalls[1].item # items[0]
    /\ \E i, j \in Indices : outcome[i].kind = "raise" /\ outcome[j].kind = "return"

\* what C18 says of a call with no items, apart from the workers
NothingToDo ==
    /\ results = << >>
    /\ errors = << >>
    /\ mapperCalls = << >>
    /\ progressCalls = << >>
    /\ mpc # "rejected"

\* C18 as stated: with N = 0 the call returns empty results and errors,
\* invokes neither the transform nor the progress callback, and no worker
\* is ever started.
C18_AsStated ==
    (mpc # "idle" /\ Len0(items) = 0) =>
        /\ NothingToDo
        /\ \A w \in Workers : wpc[w] = "new"

\* C18 amended: with N = 0 the call returns empty results and errors and
\* invokes neither the transform nor the progress callback; the L workers
\* are started all the same, and each returns at once holding no item.
C18_Amended ==
    (mpc # "idle" /\ Len0(items) = 0) =>
        /\ NothingToDo
        /\ Cardinality(Workers) = limit
        /\ \A w \in Workers : wpc[w] \in {"new", "done"} /\ wcur[w] = -1
        /\ mpc \in {"awaitAll", "resolved"} => \A w \in Workers : wpc[w] = "done"

\* a call with no items, limit 2 and a progress callback has resolved
C18_Witness ==
    /\ mpc = "resolved"
    /\ Len0(items) = 0
    /\ limit = 2
    /\ onProgress = "ok"
    /\ index = 2

\* no index was handed to the transform twice, no two workers hold the same
\* index, and once the call has resolved every index was handed out
ClaimedOnce ==
    /\ \A k, l \in 1..Len(mapperCalls) : k # l => mapperCalls[k] # mapperCalls[l]
    /\ Range(mapperCalls) \subseteq Indices
    /\ \A w, v \in Workers :
        (w # v /\ wcur[w] # -1) => wcur[w] # wcur[v]
    /\ mpc = "resolved" => Range(mapperCalls) = Indices

\* a step in which worker w takes a new index: the transform of the index
\* it held has settled, the index was never taken before, and the
\* transform is called for it in this step
ClaimsAfterSettling ==
    \A w \in Workers :
        (w \in DOMAIN wcur' /\ wcur'[w] # wcur[w]) =>
            /\ wcur[w] = -1 \/ outcome[wcur[w]] # PENDING
            /\ wcur'[w] \notin Range(mapperCalls)
            /\ mapperCalls' = Append(mapperCalls, wcur'[w])
            /\ \A v \in Workers \ {w} : wcur'[v] = wcur[v]

\* C20: every index 0..N-1 is claimed by exactly one worker and the
\* transform is invoked exactly once per item, for every limit and every
\* interleaving; a worker claims its next index only after the transform
\* of its current one has settled.
C20_ClaimedOnce == [](ClaimedOnce) /\ [][ClaimsAfterSettling]_vars

\* three items and two workers: the second worker made the last claim
C20_Witness ==
    /\ mpc = "resolved"
    /\ Len0(items) = 3
    /\ limit = 2
    /\ mapperCalls = << 0, 1, 2 >>
    /\ wcur[2] = 2
    /\ wcur[1] = 0

\* ===================================== claims: buildDuplicatesReport (2)

\* the number of (bucket, member) positions of the size Map
BucketPositions ==
    Cardinality({ bm \in (1..Len(sizeGroups)) \X (1..MaxFiles + 1) :
                    bm[2] <= Len(sizeGroups[bm[1]].files) })

\* C17: stats.filesScanned is the number of files that entered a size
\* bucket (the sum of the bucket lengths) and stats.filesHashed is the
\* number of candidates submitted to hashing.
C17_ScannedAndHashed ==
    rpc = "returned" =>
        /\ stats.filesScanned = BucketPositions
        /\ stats.filesScanned = Cardinality({ f \in Range(walked) : BucketsOf(f) # {} })
        /\ stats.filesHashed = Len0(items)
        /\ stats.filesHashed = Len(mapperCalls)
        /\ stats.filesHashed = Len(candidates)

\* four files walked, one could not be stat-ed, one is alone with its size
C17_Witness ==
    /\ rpc = "returned"
    /\ Len(walked) = 4
    /\ statFail # {}
    /\ Len(sizeGroups) = 2
    /\ stats.filesScanned = 3
    /\ stats.filesHashed = 2

\* the paths of the candidates from index i on that hashed to digest d
RECURSIVE PathsOf(_, _)
PathsOf(d, i) ==
    IF i \notin Indices THEN << >>
    ELSE (IF i \in Producers(d) THEN << items[i] >> ELSE << >>) \o PathsOf(d, i + 1)

\* the report as the candidate order alone determines it: going through
\* the candidates in submission order, a digest with two or more producers
\* gets its block where its first producer stands
RECURSIVE ReportFrom(_)
ReportFrom(i) ==
    IF i \notin Indices THEN << >>
    ELSE LET d == outcome[i].val.hash IN
         (IF /\ outcome[i].val.tag = "value"
             /\ Cardinality(Producers(d)) >= 2
             /\ \A j \in Producers(d) : j >= i
          THEN << [line |-> "Hash: ", arg |-> d] >>
               \o [k \in 1..Len(PathsOf(d, 0)) |-> [line |-> "- ", arg |-> PathsOf(d, 0)[k]]]
               \o << [line |-> "", arg |-> ""] >>
          ELSE << >>)
         \o ReportFrom(i + 1)

\* C19: the order of the blocks and of the paths inside each block depends
\* only on the candidate submission order (a block stands where its digest
\* is first seen among the candidates, its paths are in candidate order),
\* whatever the order in which the hash calls completed.
C19_ReportOrder ==
    rpc = "returned" => report = ReportFrom(0)

\* two interleaved duplicate pairs; the hash call of the first candidate
\* was the last one to complete
C19_Witness ==
    /\ rpc = "returned"
    /\ Len(candidates) = 4
    /\ Producers(Digest("x")) = {0, 2}
    /\ Producers(Digest("y")) = {1, 3}
    /\ progressCalls[4].item = candidates[1]
    /\ report[1].arg = Digest("x")
    /\ Len(report) = 8

\* which hook may directly follow which: updates repeat, the others do not
HookFollows(h1, h2) ==
    \/ h1 = "startScanning" /\ h2 \in {"updateScanning", "endScanning"}
    \/ h1 = "updateScanning" /\ h2 \in {"updateScanning", "endScanning"}
    \/ h1 = "endScanning" /\ h2 = "startHashing"
    \/ h1 = "startHashing" /\ h2 \in {"updateHashing", "endHashing"}
    \/ h1 = "updateHashing" /\ h2 \in {"updateHashing", "endHashing"}

CallsOfHook(hook) == { k \in 1..Len(sinkCalls) : sinkCalls[k].hook = hook }

\* C16: the hooks of the progress sink are called in the order
\* startScanning, updateScanning*, endScanning (with the final file count),
\* startHashing (with the candidate count), updateHashing*, endHashing; each
\* of the four start/end hooks once, no updateHashing outside of
\* startHashing..endHashing, and endHashing before the result is returned.
C16_SinkOrder ==
    /\ sinkCalls # << >> => sinkCalls[1].hook = "startScanning"
    /\ \A k \in 1..(Len(sinkCalls) - 1) :
        HookFollows(sinkCalls[k].hook, sinkCalls[k + 1].hook)
    /\ rpc \in {"scanned", "returned"} =>
        \A k \in CallsOfHook("endScanning") :
            /\ sinkCalls[k].count = fileCount
            /\ sinkCalls[k].count = Cardinality(CallsOfHook("updateScanning"))
            /\ sinkCalls[k].count = TotalFiles(sizeGroups)
    /\ rpc \in {"report", "returned"} =>
        /\ sinkCalls[Len(sinkCalls)].hook = "endHashing"
        /\ Cardinality(CallsOfHook("updateHashing")) = Len(candidates)
        /\ \A k \in CallsOfHook("startHashing") \cup CallsOfHook("updateHashing") :
            /\ sinkCalls[k].total = Len(candidates)
            /\ sinkCalls[k].total = Len0(items)

\* a run over four files, one of which could not be stat-ed: three
\* updateScanning calls, endScanning(3), startHashing(2), two updateHashing
\* calls and endHashing
C16_Witness ==
    /\ rpc = "returned"
    /\ Len(walked) = 4
    /\ Cardinality(CallsOfHook("updateScanning")) = 3
    /\ \E k \in CallsOfHook("endScanning") : sinkCalls[k].count = 3
    /\ \E k \in CallsOfHook("startHashing") : sinkCalls[k].total = 2
    /\ Cardinality(CallsOfHook("updateHashing")) = 2
    /\ Len(sinkCalls) = 9

\* ======================================== claims: the walk and the filters

\* the paths of the entries of one kind, the paths in the size buckets and
\* the paths listed in the report
PathsOfKind(kind) == { PathOf(nodes, k) : k \in { j \in 1..Len(nodes) : nodes[j].kind = kind } }
BucketPaths == UNION { Range(sizeGroups[b].files) : b \in 1..Len(sizeGroups) }
ReportPaths == { report[k].arg : k \in { j \in 1..Len(report) : report[j].line = "- " } }
ScanIsOver == rpc \in {"scanned", "hashing", "report", "returned"}

\* C12: walkDirectory never hands a symbolic link to its callback and never
\* walks into one, so a link is not counted, enters no size bucket, is no
\* candidate and is not in the report; the regular files, the one a link
\* points to among them, are found as themselves.
C12_NoSymlinks ==
    /\ \A p \in PathsOfKind("link") :
        /\ p \notin Range(walked)
        /\ p \notin BucketPaths
        /\ p \notin Range(candidates)
        /\ p \notin ReportPaths
        /\ \A k \in 1..Len(stack) : stack[k].dir # p
    /\ \A k \in 1..Len(stack) : stack[k].dir \in PathsOfKind("dir") \cup {Root}
    /\ Range(walked) \subseteq PathsOfKind("file")
    /\ fileCount = Cardinality(BucketPaths)
    /\ (ScanIsOver /\ unreadable = {}) => Range(walked) = PathsOfKind("file")
    /\ rpc = "returned" => stats.filesScanned = Cardinality(BucketPaths)

\* a root with two files of the same content and a link to the first of
\* them: two files are counted and the report lists the two
C12_Witness ==
    /\ rpc = "returned"
    /\ Len(nodes) = 3
    /\ \E k \in 1..3 : nodes[k].kind = "link" /\ nodes[k].data = "file"
    /\ Cardinality(PathsOfKind("file")) = 2
    /\ ReportPaths = PathsOfKind("file")
    /\ stats.filesScanned = 2
    /\ stats.duplicateFiles = 2

\* C13: the file whose path is excludePath enters no size bucket, is not
\* counted in filesScanned nor among the candidates, is never hashed and is
\* not in the report, whatever its content; the other files are bucketed
\* as they are without it.
C13_Excluded ==
    excludePath # "" =>
        /\ excludePath \notin BucketPaths
        /\ excludePath \notin Range(candidates)
        /\ excludePath \notin Hashed
        /\ excludePath \notin ReportPaths
        /\ ~extensions.given => fileCount = Cardinality(Range(walked) \ {excludePath})
        /\ ScanIsOver =>
            BucketPaths = { f \in PathsOfKind("file") \ {excludePath} : ExtensionAllowed(f) }
        /\ rpc = "returned" =>
            /\ stats.filesScanned = Cardinality(BucketPaths)
            /\ stats.filesHashed = Cardinality(Range(candidates))

\* three files of the same content, one of them is excludePath: two files
\* are scanned, hashed and reported
C13_Witness ==
    /\ rpc = "returned"
    /\ Cardinality(PathsOfKind("file")) = 3
    /\ \A k \in 1..3 : nodes[k].data = "x"
    /\ excludePath \in PathsOfKind("file")
    /\ ~extensions.given
    /\ ReportPaths = PathsOfKind("file") \ {excludePath}
    /\ stats.filesScanned = 2
    /\ stats.filesHashed = 2

\* C14: with an allow-list, a walked file enters a size bucket if and only
\* if its extension equals some entry of the list when letter case is
\* disregarded (the file not being excludePath and its stat succeeding).
C14_AsStated ==
    (extensions.given /\ ScanIsOver) =>
        \A f \in Range(walked) \ ({excludePath} \cup statFail) :
            f \in BucketPaths <=>
                \E e \in extensions.list : ToLowerCase(e) = ToLowerCase(ExtName(f))

\* ================================================ claims: the executor (3)

\* the call has resolved only with every item completed, and no failure of
\* a transform makes it reject
ResolvesComplete ==
    /\ mpc = "resolved" =>
        /\ completed = Len0(items)
        /\ \A i \in Indices : outcome[i] # PENDING /\ results[i] = SlotFor(outcome[i])
    /\ onProgress # "throws" => mpc # "rejected"

\* C21: when every transform call settles in the end, mapWithConcurrency
\* resolves in the end, and only once all N items are completed; the
\* failure of a transform never makes it resolve early or reject.
C21_Resolves ==
    /\ [](ResolvesComplete)
    /\ (mpc # "idle" /\ onProgress # "throws") ~> (mpc = "resolved")

\* three items, two workers, every transform raised, and the call resolved
C21_Witness ==
    /\ mpc = "resolved"
    /\ Len0(items) = 3
    /\ limit = 2
    /\ \A i \in Indices : outcome[i].kind = "raise"
    /\ Len(errors) = 3

\* ===================================== claims: buildDuplicatesReport (3)

\* the re-stats that failed, and what is recorded about path f
FailedReStats == { k \in 1..Len(reStats) : ~reStats[k].ok }
LogEntriesAbout(f) == { k \in 1..Len(log) : log[k].filePath = f }

\* the group whose first member is f is counted and reported in full
GroupReported(f) ==
    LET d == Digest(content[f]) IN
    /\ d \in DuplicateDigests
    /\ \E k \in HashLines(d) :
        /\ BlockPaths(k) = { items[i] : i \in Producers(d) }
        /\ f \in BlockPaths(k)

\* size x (member count - 1), summed over the groups whose re-stat succeeded
RECURSIVE SumWastedOk(_)
SumWastedOk(k) ==
    IF k = 0 THEN 0
    ELSE (IF reStats[k].ok
          THEN Size(content[reStats[k].filePath])
               * (Cardinality(Producers(Digest(content[reStats[k].filePath]))) - 1)
          ELSE 0)
         + SumWastedOk(k - 1)

\* what holds of a run with failed re-stats, however the failure shows
DegradesToZero ==
    /\ \A k \in FailedReStats : GroupReported(reStats[k].filePath)
    /\ Len(reStats) = Cardinality(DuplicateDigests)
    /\ stats.duplicateGroups = Cardinality(DuplicateDigests)
    /\ stats.duplicateFiles =
            Cardinality({ i \in Indices : \E d \in DuplicateDigests : i \in Producers(d) })
    /\ stats.wastedBytes = SumWastedOk(Len(reStats))

\* C22 as stated: when the re-stat of a group's first member fails the call
\* still returns, the group is counted and reported, it adds 0 to
\* wastedBytes, and the failure shows in the returned errors or in the log.
C22_AsStated ==
    rpc = "returned" =>
        /\ DegradesToZero
        /\ \A k \in FailedReStats :
            \/ LogEntriesAbout(reStats[k].filePath) # {}
            \/ ErrorEntriesAbout(reStats[k].filePath) # 0

\* C22 amended: ... the group adds 0 to wastedBytes, and the failure is
\* dropped: nothing is logged and no error record is returned for it.
C22_Amended ==
    rpc = "returned" =>
        /\ DegradesToZero
        /\ \A k \in FailedReStats :
            /\ LogEntriesAbout(reStats[k].filePath) = {}
            /\ ErrorEntriesAbout(reStats[k].filePath) = 0

\* two duplicate groups, the re-stat of the first one failed: both are
\* reported and only the second one counts for wastedBytes
C22_Witness ==
    /\ rpc = "returned"
    /\ Len(reStats) = 2
    /\ ~reStats[1].ok
    /\ reStats[2].ok
    /\ stats.duplicateGroups = 2
    /\ stats.duplicateFiles = 4
    /\ stats.wastedBytes = 2
    /\ Len(report) = 8

\* ==================================== claims: the walk and the filters (2)

\* entry k lies below a directory that cannot be read
RECURSIVE Blocked(_)
Blocked(k) ==
    \/ PathOf(nodes, nodes[k].parent) \in unreadable
    \/ nodes[k].parent # 0 /\ Blocked(nodes[k].parent)

ReachableFiles ==
    { PathOf(nodes, k) : k \in { j \in 1..Len(nodes) : nodes[j].kind = "file" /\ ~Blocked(j) } }

ReadFailureLogs(d) ==
    { k \in 1..Len(log) : log[k].what = "Error reading directory" /\ log[k].filePath = d }

\* C23: a directory that cannot be read is logged and its subtree skipped;
\* the walk does not raise and hands every regular file outside of that
\* subtree to the callback.
C23_UnreadableSkipped ==
    /\ Range(walked) \subseteq ReachableFiles
    /\ \A d \in unreadable : Cardinality(ReadFailureLogs(d)) <= 1
    /\ \A k \in 1..Len(stack) :
        stack[k].read => stack[k].dir \notin unreadable
    /\ ScanIsOver =>
        /\ Range(walked) = ReachableFiles
        /\ \A d \in unreadable : Cardinality(ReadFailureLogs(d)) = 1

\* a directory that cannot be read holds a file and is followed by a file
\* in the root: only that one is handed out, and the run goes on to return
C23_Witness ==
    /\ rpc = "returned"
    /\ Len(nodes) = 3
    /\ nodes[1].kind = "dir" /\ PathOf(nodes, 1) \in unreadable
    /\ nodes[2].kind = "file" /\ nodes[2].parent = 1
    /\ nodes[3].kind = "file" /\ nodes[3].parent = 0
    /\ walked = << PathOf(nodes, 3) >>
    /\ Len(log) = 1

StatFailureLogs(f) ==
    { k \in 1..Len(log) : log[k].what = "Error stating file" /\ log[k].filePath = f }

\* C24: a walked file whose stat fails is logged and skipped: it enters no
\* size bucket, is not counted for the scanning progress, gets no error
\* record in the result, and the files after it are processed all the same.
C24_StatFailureSkipped ==
    /\ \A f \in statFail :
        /\ f \notin BucketPaths
        /\ f \notin Range(candidates)
        /\ Cardinality(StatFailureLogs(f)) = (IF f \in Range(walked) THEN 1 ELSE 0)
        /\ ErrorEntriesAbout(f) = 0
    /\ (excludePath = "" /\ ~extensions.given) =>
        /\ fileCount = Cardinality(Range(walked) \ statFail)
        /\ Cardinality(CallsOfHook("updateScanning")) = fileCount
        /\ BucketPaths = Range(walked) \ statFail
    /\ rpc = "returned" => stats.filesScanned = Cardinality(BucketPaths)

\* three files of the same content, the stat of the second one failed: the
\* first and the third are counted, hashed and reported
C24_Witness ==
    /\ rpc = "returned"
    /\ Len(walked) = 3
    /\ statFail = { walked[2] }
    /\ BucketPaths = { walked[1], walked[3] }
    /\ ReportPaths = { walked[1], walked[3] }
    /\ stats.filesScanned = 2
    /\ Len(log) = 1
    /\ retErrors = << >>

\* how often path f was handed to the callback
TimesWalked(f) == Cardinality({ k \in 1..Len(walked) : walked[k] = f })

\* C25: walkDirectory hands every regular file that is reachable from the
\* root through directories, at any depth, to its callback exactly once, and
\* never a directory, a symbolic link or another non-regular entry.
C25_EveryFileOnce ==
    /\ \A f \in Range(walked) :
        /\ TimesWalked(f) = 1
        /\ f \in PathsOfKind("file")
        /\ f \notin PathsOfKind("dir") \cup PathsOfKind("other") \cup PathsOfKind("link")
    /\ ScanIsOver =>
        \A f \in ReachableFiles : TimesWalked(f) = 1

\* a file in a directory in a directory of the root was handed out, an
\* entry that is no regular file beside it was not
C25_Witness ==
    /\ rpc = "scanned"
    /\ Len(nodes) = 3
    /\ nodes[1].kind = "dir" /\ nodes[2].kind = "dir" /\ nodes[2].parent = 1
    /\ nodes[3].kind = "file" /\ nodes[3].parent = 2
    /\ walked = << "/r/a.txt/b.TXT/c.jpg" >>
    /\ fileCount = 1

\* when path f was handed to the callback
WalkedAt(f) == CHOOSE k \in 1..Len(walked) : walked[k] = f

\* C26: in the size Map every path is in at most one bucket and at most
\* once in it, the key of its bucket is the size its stat returned, and the
\* paths of a bucket are in the order of their discovery.
C26_Buckets ==
    /\ \A b, c \in 1..Len(sizeGroups) : b # c => sizeGroups[b].key # sizeGroups[c].key
    /\ \A b \in 1..Len(sizeGroups) :
        LET files == sizeGroups[b].files IN
        /\ files # << >>
        /\ \A m \in 1..Len(files) :
            /\ BucketsOf(files[m]) = {b}
            /\ \A n \in 1..Len(files) : files[n] = files[m] => n = m
            /\ files[m] \in Range(walked)
            /\ Stat(files[m]).ok
            /\ sizeGroups[b].key = Stat(files[m]).size
            /\ \A n \in (m + 1)..Len(files) : WalkedAt(files[m]) < WalkedAt(files[n])

\* three files were found, the second of another size than the first and
\* the third: two buckets, the first one with the first and the third file
C26_Witness ==
    /\ rpc = "scanned"
    /\ Len(walked) = 3
    /\ sizeGroups = << [key |-> 1, files |-> << walked[1], walked[3] >>],
                       [key |-> 2, files |-> << walked[2] >>] >>

\* ========================================== claims: mapWithConcurrency (4)
\* the workers whose promise rejected while finishing index i
RejectedAt(i) == { w \in Workers : wpc[w] = "rejected" /\ wcur[w] = i }

\* an index whose callback threw: its slot and its error entries are what the
\* mapper's outcome made them, it is counted as completed, its worker's
\* promise has rejected, and the executor does not resolve
ThrowIsNoItemError ==
    /\ \A k \in 1..Len(thrown) :
        LET i == thrown[k] IN
        /\ outcome[i] # PENDING
        /\ results[i] = SlotFor(outcome[i])
        /\ Cardinality(ErrorEntriesFor(i)) = IF outcome[i].kind = "raise" THEN 1 ELSE 0
        /\ Cardinality(RejectedAt(i)) = 1
    /\ Len(errors) = Cardinality({ i \in Indices : i \in Range(mapperCalls)
                                     /\ outcome[i] # PENDING /\ outcome[i].kind = "raise"
                                     /\ ErrorEntriesFor(i) # {} })
    /\ thrown # << >> => mpc \in {"awaitAll", "rejected"}
    /\ mpc = "rejected" => thrown # << >> /\ reason \in Range(thrown)

\* a worker whose promise rejected claims nothing more, and the slot of the
\* index it finished stays as it was
RejectedWorkerStops ==
    \A w \in Workers :
        wpc[w] = "rejected" =>
            /\ wpc'[w] = "rejected"
            /\ wcur'[w] = wcur[w]
            /\ results'[wcur[w]] = results[wcur[w]]
            /\ mapperCalls' = mapperCalls \/ Len(mapperCalls') = Len(mapperCalls) + 1

\* C30 as stated: an exception raised by the progress callback is not
\* recorded as a per-item error, the worker that made the call claims no
\* further item, the slot of the item stays finalized, and the returned
\* promise rejects with that exception, whichever call raised it.
C30_AsStated ==
    /\ [](ThrowIsNoItemError)
    /\ [][RejectedWorkerStops]_vars
    /\ \A i \in 0..(MaxItems - 1) :
        (i \in Range(thrown)) ~> (mpc = "rejected" /\ reason = i)

\* C30 amended: as C30, but the returned promise rejects with the exception
\* of the first callback call that raised; what a later call raises in
\* another worker is dropped by Promise.all.
C30_Amended ==
    /\ [](ThrowIsNoItemError)
    /\ [][RejectedWorkerStops]_vars
    /\ (thrown # << >>) ~> (mpc = "rejected" /\ reason = thrown[1])

\* the callback threw for the first item finished and a later item was left
\* unclaimed by the worker that stopped
C30_Witness ==
    /\ mpc = "rejected"
    /\ Len0(items) = 3
    /\ limit = 2
    /\ Len(thrown) = 2
    /\ reason = thrown[1]
    /\ \E i \in Indices : i \notin Range(mapperCalls)
    /\ errors = << >>

\* ============================================== claims: config.ts
\* the count of CPUs moved into 2..8
Clamped(n) == IF n < 2 THEN 2 ELSE IF n > 8 THEN 8 ELSE n

\* C29: the worker count buildDuplicatesReport hands to the executor is in
\* 2..8 for every CPU count, 0 (unknown) included, and is the same for every
\* number of candidates: it is the CPU count moved into 2..8.
C29_WorkerCount ==
    mpc # "idle" =>
        /\ limit \in 2..8
        /\ limit = Clamped(cpuCount)
        /\ Cardinality(Workers) = limit

\* more CPUs than 8 and no candidate at all: eight workers all the same
C29_Witness ==
    /\ mpc = "awaitAll"
    /\ cpuCount > 8
    /\ Len0(items) = 0
    /\ limit = 8
    /\ \A w \in Workers : wpc[w] = "done"

\* ================================================= claims: hashFile
\* C28: hashFile rejects, with no digest produced, when the file cannot be
\* opened or a read fails partway; it resolves only after every chunk up to
\* the end of the file was read, with the digest of the whole file.
C28_HashFile ==
    /\ herror # "" => hpc = "rejected"
    /\ hpc = "rejected" => hdigest = "" /\ herror # ""
    /\ hdigest # "" => hpc = "resolved"
    /\ hpc = "resolved" =>
        /\ hpos = Len(chunks)
        /\ hacc = Concat(chunks)
        /\ hdigest = Digest(Concat(chunks))

\* a read fails after two of three chunks were hashed
C28_Witness ==
    /\ hpc = "rejected"
    /\ herror = "read"
    /\ Len(chunks) = 3
    /\ hpos = 2
    /\ hdigest = ""

\* ===================================== claims: buildDuplicatesReport (4)
\* the members of every reported group sit in the size bucket of the first
SameBucket ==
    \A g \in 1..Len(hashGroups) :
        LET files == hashGroups[g].files IN
        IsDuplicateGroup(files) =>
            \A m \in 1..Len(files) :
                /\ BucketsOf(files[m]) = BucketsOf(files[1])
                /\ sizeGroups[BucketOf(files[m])].key = sizeGroups[BucketOf(files[1])].key

\* C27 as stated: all members of a reported duplicate group come from the
\* same size bucket: they had the same size when they were scanned.
C27_AsStated == rpc \in {"report", "returned"} => SameBucket

\* C27 amended: when no file was rewritten between the scan and the hashing,
\* all members of a reported duplicate group come from the same size bucket.
C27_Amended == (rpc \in {"report", "returned"} /\ changed = {}) => SameBucket

\* no file changed; two buckets of two files each gave two groups
C27_Witness ==
    /\ rpc = "returned"
    /\ changed = {}
    /\ Len(sizeGroups) = 2
    /\ Len(hashGroups) = 2
    /\ \A g \in 1..2 : Len(hashGroups[g].files) = 2
    /\ stats.duplicateGroups = 2

================================================================================
